---------------------------- MODULE Spec2Model ----------------------------
(***************************************************************************)
(* Evaluation core of the fuzzy-systems library: the linguistic-variable   *)
(* builders ThreePointsLV and TwoPointsPDLV, the SingletonMF membership    *)
(* function and FuzzyRule with its fuzzify / activate / implicate methods. *)
(*                                                                         *)
(* Objects live in a heap (a sequence of membership functions and a        *)
(* sequence of linguistic variables, referenced by index) so that sharing  *)
(* by reference and in-place mutation can be expressed.  Degrees are exact *)
(* rationals <<n, d>> in lowest terms with d > 0; crisp values and         *)
(* defining points are integers.                                           *)
(***************************************************************************)
EXTENDS Integers, Sequences, FiniteSets, TLC

VARIABLES heap, rule, built, pc, op, args, ret

vars == <<heap, rule, built, pc, op, args, ret>>

(***************************************************************************)
(* Bounds of the model.                                                    *)
(***************************************************************************)
\* the builders' defining points range over 0..MaxX
MaxX == 3
\* largest number of antecedents of a rule
MaxAnts == 2
\* largest number of consequents of a rule
MaxCons == 2
\* largest number of entries of a crisp-input mapping
MaxInputs == 2
\* largest length of a sequence handed to activate
MaxSeq == 3

(***************************************************************************)
(* Exact rational arithmetic for membership degrees.                       *)
(***************************************************************************)
RECURSIVE GCD(_, _)
GCD(a, b) == IF b = 0 THEN a ELSE GCD(b, a % b)

Abs(n) == IF n < 0 THEN -n ELSE n

Norm(n, d) ==
    LET s == IF d < 0 THEN -1 ELSE 1
        g == GCD(Abs(n), Abs(d))
    IN  <<(s * n) \div g, (s * d) \div g>>

R(n) == <<n, 1>>
RAdd(a, b) == Norm(a[1] * b[2] + b[1] * a[2], a[2] * b[2])
RSub(a, b) == Norm(a[1] * b[2] - b[1] * a[2], a[2] * b[2])
RMul(a, b) == Norm(a[1] * b[1], a[2] * b[2])
RDivInt(a, k) == Norm(a[1], a[2] * k)
RLess(a, b) == a[1] * b[2] < b[1] * a[2]

Zero == R(0)
One == R(1)
Half == <<1, 2>>

\* the degrees a caller hands to activate and implicate
Degrees == {Zero, Half, One}

(***************************************************************************)
(* numpy.interp(x, xp, fp) as FuzzyRule.fuzzify calls it: a scalar x, the  *)
(* sample points xp and the sample values fp.  The search is numpy's       *)
(* binary_search_with_guess, which for arrays this short is a linear scan  *)
(* and which does not require xp to be increasing.  Indices are 1-based    *)
(* here: the result j of the search is numpy's j + 1.                      *)
(***************************************************************************)
RECURSIVE LinearSearch(_, _, _)
LinearSearch(key, arr, i) ==
    IF i <= Len(arr) /\ key >= arr[i] THEN LinearSearch(key, arr, i + 1)
    ELSE i - 1

BinarySearchWithGuess(key, arr) ==
    IF key > arr[Len(arr)] THEN Len(arr) + 1
    ELSE IF key < arr[1] THEN 0
    ELSE LinearSearch(key, arr, 2)

Interp(x, xp, fp) ==
    LET j == BinarySearchWithGuess(x, xp)
    IN  IF j = 0 THEN fp[1]
        ELSE IF j = Len(xp) + 1 THEN fp[Len(fp)]
        ELSE IF j = Len(xp) THEN fp[j]
        ELSE IF xp[j] = x THEN fp[j]
        ELSE LET slope == RDivInt(RSub(fp[j + 1], fp[j]), xp[j + 1] - xp[j])
             IN  RAdd(RMul(slope, R(x - xp[j])), fp[j])

(***************************************************************************)
(* Membership functions.  A membership function object is a record         *)
(* [cls, in_values, mf_values].                                            *)
(***************************************************************************)
FreeShapeMF(in_values, mf_values) ==
    [cls |-> "FreeShapeMF", in_values |-> in_values, mf_values |-> mf_values]

\* LinPWMF([x1, y1], [x2, y2], ...): the x and the y collected in the given order
LinPWMF(points) ==
    [cls |-> "LinPWMF",
     in_values |-> [i \in 1..Len(points) |-> points[i][1]],
     mf_values |-> [i \in 1..Len(points) |-> R(points[i][2])]]

SingletonMF(x) ==
    [cls |-> "SingletonMF", in_values |-> <<x, x>>, mf_values |-> <<Zero, One>>]

\* SingletonMF.fuzzify
SingletonMF_fuzzify(mf, in_value) ==
    IF in_value = mf.in_values[1] THEN One ELSE Zero

(***************************************************************************)
(* Linguistic variables: a record [name, ling_values], ling_values a       *)
(* function from labels to heap indices of membership functions.           *)
(***************************************************************************)
\* a Python dict literal {k1: v1, k2: v2, ...}: a repeated key keeps the last value
DictLiteral(pairs) ==
    LET keys == {pairs[i][1] : i \in 1..Len(pairs)}
        Last(k) == CHOOSE i \in 1..Len(pairs) :
                       /\ pairs[i][1] = k
                       /\ \A j \in 1..Len(pairs) : pairs[j][1] = k => j <= i
    IN  [k \in keys |-> pairs[Last(k)][2]]

LinguisticVariable(name, ling_values_dict) ==
    [name |-> name, ling_values |-> ling_values_dict]

\* allocation of new objects at the end of the heap
AllocMFs(h, new) == [h EXCEPT !.mfs = h.mfs \o new]
AllocLV(h, lv) == [h EXCEPT !.lvs = Append(h.lvs, lv)]

EmptyHeap == [mfs |-> <<>>, lvs |-> <<>>]

(***************************************************************************)
(* The builders.  A constructor call returns [err, heap, ret]: the error   *)
(* raised ("" for none), the heap after the call and the index of the new  *)
(* linguistic variable in it.                                              *)
(***************************************************************************)
Raised(e, h) == [err |-> e, heap |-> h, ret |-> 0]

\* ThreePointsLV with the points of its third function given in the order of
\* the first (a falling instead of a rising edge)
ThreePointsLVFallingHigh(h, name, p1, p2, p3, n1, n2, n3) ==
    IF ~(p1 < p2 /\ p2 < p3) THEN Raised("AssertionError", h)
    ELSE LET base == Len(h.mfs)
             h1 == AllocMFs(h, <<LinPWMF(<<<<p1, 1>>, <<p2, 0>>>>),
                                 LinPWMF(<<<<p1, 0>>, <<p2, 1>>, <<p3, 0>>>>),
                                 LinPWMF(<<<<p2, 1>>, <<p3, 0>>>>)>>)
             ling_values_dict == DictLiteral(<<<<n1, base + 1>>,
                                               <<n2, base + 2>>,
                                               <<n3, base + 3>>>>)
         IN  [err |-> "",
              heap |-> AllocLV(h1, LinguisticVariable(name, ling_values_dict)),
              ret |-> Len(h.lvs) + 1]

ThreePointsLV(h, name, p1, p2, p3, n1, n2, n3) ==
    IF ~(p1 < p2 /\ p2 < p3) THEN Raised("AssertionError", h)
    ELSE LET base == Len(h.mfs)
             h1 == AllocMFs(h, <<LinPWMF(<<<<p1, 1>>, <<p2, 0>>>>),
                                 LinPWMF(<<<<p1, 0>>, <<p2, 1>>, <<p3, 0>>>>),
                                 LinPWMF(<<<<p2, 0>>, <<p3, 1>>>>)>>)
             ling_values_dict == DictLiteral(<<<<n1, base + 1>>,
                                               <<n2, base + 2>>,
                                               <<n3, base + 3>>>>)
         IN  [err |-> "",
              heap |-> AllocLV(h1, LinguisticVariable(name, ling_values_dict)),
              ret |-> Len(h.lvs) + 1]

TwoPointsPDLV(h, name, p, d, n1, n2) ==
    LET base == Len(h.mfs)
        h1 == AllocMFs(h, <<LinPWMF(<<<<p, 1>>, <<p + d, 0>>>>),
                            LinPWMF(<<<<p, 0>>, <<p + d, 1>>>>)>>)
        ling_values_dict == DictLiteral(<<<<n1, base + 1>>, <<n2, base + 2>>>>)
    IN  [err |-> "",
         heap |-> AllocLV(h1, LinguisticVariable(name, ling_values_dict)),
         ret |-> Len(h.lvs) + 1]

(***************************************************************************)
(* FuzzyRule.  Antecedents are records [lv_name, lv_value, is_not] and     *)
(* consequents records [lv_name, lv_value], lv_name the heap index of the  *)
(* referenced linguistic variable.  The operator pairs are <<f, text>>.    *)
(***************************************************************************)
FuzzyRule(ants, ant_act_func, cons, impl_func) ==
    [ants |-> ants, ant_act_func |-> ant_act_func,
     cons |-> cons, impl_func |-> impl_func]

\* the callables a rule is configured with, applied to a two-element list
RMin2(a, b) == IF RLess(b, a) THEN b ELSE a
RMax2(a, b) == IF RLess(a, b) THEN b ELSE a
Call(f, pair) ==
    CASE f = "min" -> RMin2(pair[1], pair[2])
      [] f = "max" -> RMax2(pair[1], pair[2])
      [] f = "prod" -> RMul(pair[1], pair[2])
      [] f = "mean" -> RDivInt(RAdd(pair[1], pair[2]), 2)

\* the inner loop of fuzzify without its break: the last matching antecedent
RECURSIVE FindAntNoBreak(_, _, _, _)
FindAntNoBreak(h, ants, lv_name, i) ==
    IF i > Len(ants) THEN 0
    ELSE LET later == FindAntNoBreak(h, ants, lv_name, i + 1)
         IN  IF later # 0 THEN later
             ELSE IF h.lvs[ants[i].lv_name].name = lv_name THEN i
             ELSE 0

\* the inner loop of fuzzify: the first antecedent from position i on whose
\* variable is named lv_name (0: none)
RECURSIVE FindAnt(_, _, _, _)
FindAnt(h, ants, lv_name, i) ==
    IF i > Len(ants) THEN 0
    ELSE IF h.lvs[ants[i].lv_name].name = lv_name THEN i
    ELSE FindAnt(h, ants, lv_name, i + 1)

\* fuzzify's NOT operator with the flag ignored
ApplyNotIgnored(is_not, fuzzified_value) == fuzzified_value

\* the NOT operator of fuzzify
ApplyNot(is_not, fuzzified_value) ==
    IF is_not = TRUE THEN RSub(One, fuzzified_value) ELSE fuzzified_value

\* the body of fuzzify's outer loop for the entry (lv_name, crisp_input)
FuzzifyEntry(h, r, lv_name, crisp_input, acc) ==
    LET a == FindAnt(h, r.ants, lv_name, 1)
    IN  IF a = 0 THEN acc
        ELSE LET ant == r.ants[a]
                 lvalue_dict == h.lvs[ant.lv_name].ling_values
                 mf == h.mfs[lvalue_dict[ant.lv_value]]
                 fuzzified_value == Interp(crisp_input, mf.in_values, mf.mf_values)
             IN  Append(acc, ApplyNot(ant.is_not, fuzzified_value))

RECURSIVE FuzzifyFrom(_, _, _, _, _)
FuzzifyFrom(h, r, crisp_inputs, k, acc) ==
    IF k > Len(crisp_inputs) THEN acc
    ELSE FuzzifyFrom(h, r, crisp_inputs, k + 1,
                     FuzzifyEntry(h, r, crisp_inputs[k][1], crisp_inputs[k][2], acc))

\* fuzzify looping over the antecedents instead of the inputs: one degree per
\* antecedent whose variable has an input, in declaration order
RECURSIVE FuzzifyByAntFrom(_, _, _, _, _)
FuzzifyByAntFrom(h, r, crisp_inputs, a, acc) ==
    IF a > Len(r.ants) THEN acc
    ELSE LET ant == r.ants[a]
             hits == {k \in 1..Len(crisp_inputs) :
                         crisp_inputs[k][1] = h.lvs[ant.lv_name].name}
         IN  IF hits = {} THEN FuzzifyByAntFrom(h, r, crisp_inputs, a + 1, acc)
             ELSE LET k == CHOOSE k \in hits : TRUE
                      mf == h.mfs[h.lvs[ant.lv_name].ling_values[ant.lv_value]]
                      v == Interp(crisp_inputs[k][2], mf.in_values, mf.mf_values)
                  IN  FuzzifyByAntFrom(h, r, crisp_inputs, a + 1,
                                       Append(acc, ApplyNot(ant.is_not, v)))

fuzzifyByAntecedent(h, r, crisp_inputs) ==
    FuzzifyByAntFrom(h, r, crisp_inputs, 1, <<>>)

\* crisp_inputs is the mapping as the sequence of its (key, value) items
fuzzify(h, r, crisp_inputs) == FuzzifyFrom(h, r, crisp_inputs, 1, <<>>)

\* activate combining each element with its predecessor instead of with the
\* running value (a sliding window of size 2 taken literally)
RECURSIVE ActivateSlidingWindow(_, _, _, _)
ActivateSlidingWindow(r, fuzzified_inputs, i, ant_val) ==
    IF i > Len(fuzzified_inputs) THEN ant_val
    ELSE ActivateSlidingWindow(r, fuzzified_inputs, i + 1,
             Call(r.ant_act_func[1],
                  <<fuzzified_inputs[i - 1], fuzzified_inputs[i]>>))

RECURSIVE ActivateFrom(_, _, _, _)
ActivateFrom(r, fuzzified_inputs, i, ant_val) ==
    IF i > Len(fuzzified_inputs) THEN ant_val
    ELSE ActivateFrom(r, fuzzified_inputs, i + 1,
                      Call(r.ant_act_func[1], <<ant_val, fuzzified_inputs[i]>>))

\* [err, ret]: indexing an empty list raises IndexError
activate(r, fuzzified_inputs) ==
    IF Len(fuzzified_inputs) = 0 THEN [err |-> "IndexError", ret |-> Zero]
    ELSE [err |-> "", ret |-> ActivateFrom(r, fuzzified_inputs, 2, fuzzified_inputs[1])]

\* the implicated function built from the consequent's degrees as they are,
\* the implication function not applied
ImplicatedMFUnclipped(h, r, con, antecedents_activation) ==
    LET ling_value == h.mfs[h.lvs[con.lv_name].ling_values[con.lv_value]]
    IN  FreeShapeMF(ling_value.in_values, ling_value.mf_values)

\* the implicated function of one consequent
ImplicatedMF(h, r, con, antecedents_activation) ==
    LET ling_value == h.mfs[h.lvs[con.lv_name].ling_values[con.lv_value]]
        in_values == ling_value.in_values
        mf_values == [i \in 1..Len(ling_value.mf_values) |->
                         Call(r.impl_func[1],
                              <<ling_value.mf_values[i], antecedents_activation>>)]
    IN  FreeShapeMF(in_values, mf_values)

\* defaultdict(list): d[key].append(x)
DictAppend(d, key, x) ==
    [k \in DOMAIN d \cup {key} |->
        IF k = key THEN (IF k \in DOMAIN d THEN Append(d[k], x) ELSE <<x>>)
        ELSE d[k]]

EmptyDict == [k \in {} |-> <<>>]

\* the loop of implicate from consequent i on: st is [heap, ret]
RECURSIVE ImplicateFrom(_, _, _, _)
ImplicateFrom(r, antecedents_activation, i, st) ==
    IF i > Len(r.cons) THEN st
    ELSE LET con == r.cons[i]
             new == ImplicatedMF(st.heap, r, con, antecedents_activation)
             h1 == AllocMFs(st.heap, <<new>>)
         IN  ImplicateFrom(r, antecedents_activation, i + 1,
                 [heap |-> h1,
                  ret |-> DictAppend(st.ret, h1.lvs[con.lv_name].name, Len(h1.mfs))])

\* implicate writing the implicated degrees into the consequent's own
\* membership function and returning that function
RECURSIVE ImplicateInPlaceFrom(_, _, _, _)
ImplicateInPlaceFrom(r, antecedents_activation, i, st) ==
    IF i > Len(r.cons) THEN st
    ELSE LET con == r.cons[i]
             at == st.heap.lvs[con.lv_name].ling_values[con.lv_value]
             new == ImplicatedMF(st.heap, r, con, antecedents_activation)
             h1 == [st.heap EXCEPT !.mfs[at].mf_values = new.mf_values]
         IN  ImplicateInPlaceFrom(r, antecedents_activation, i + 1,
                 [heap |-> h1,
                  ret |-> DictAppend(st.ret, h1.lvs[con.lv_name].name, at)])

implicateInPlace(h, r, antecedents_activation) ==
    ImplicateInPlaceFrom(r, antecedents_activation, 1, [heap |-> h, ret |-> EmptyDict])

\* [heap, ret]: the heap after the call and the returned mapping from variable
\* names to lists of (heap indices of) new membership functions
implicate(h, r, antecedents_activation) ==
    ImplicateFrom(r, antecedents_activation, 1, [heap |-> h, ret |-> EmptyDict])

(***************************************************************************)
(* The linguistic variables the rules are built against, constructed with  *)
(* the constructors above:                                                 *)
(*   1  TwoPointsPDLV("temperature", 0, 3)          labels low, high       *)
(*   2  LinguisticVariable("temperature", {"exact": SingletonMF(2)})       *)
(*   3  ThreePointsLV("power", 0, 2, 3)             labels low .. high     *)
(* Variables 1 and 2 are distinct objects that carry the same name.        *)
(***************************************************************************)
Catalog ==
    LET h1 == TwoPointsPDLV(EmptyHeap, "temperature", 0, 3, "low", "high").heap
        h2 == AllocLV(AllocMFs(h1, <<SingletonMF(2)>>),
                      LinguisticVariable("temperature",
                                         DictLiteral(<<<<"exact", Len(h1.mfs) + 1>>>>)))
    IN  ThreePointsLV(h2, "power", 0, 2, 3, "low", "medium", "high").heap

Antecedent(lv_name, lv_value, is_not) ==
    [lv_name |-> lv_name, lv_value |-> lv_value, is_not |-> is_not]

Consequent(lv_name, lv_value) == [lv_name |-> lv_name, lv_value |-> lv_value]

SeqsUpTo(S, lo, hi) == UNION {[1..k -> S] : k \in lo..hi}

AntElems ==
    {Antecedent(1, "low", FALSE), Antecedent(1, "low", TRUE),
     Antecedent(1, "high", FALSE),
     Antecedent(2, "exact", FALSE), Antecedent(2, "exact", TRUE),
     Antecedent(3, "medium", FALSE)}

ConElems ==
    {Consequent(3, "low"), Consequent(3, "medium"), Consequent(3, "high"),
     Consequent(1, "high")}

ActFuncs == {<<"min", "AND_min">>, <<"max", "OR_max">>, <<"mean", "mean">>}
ImplFuncs == {<<"min", "min">>, <<"prod", "prod">>}

DefaultAnts == <<Antecedent(1, "low", FALSE), Antecedent(3, "medium", FALSE)>>
DefaultCons == <<Consequent(3, "high")>>

\* the rules of the model: each part of the configuration varied in turn
Rules ==
    {FuzzyRule(a, <<"min", "AND_min">>, DefaultCons, <<"min", "min">>) :
        a \in SeqsUpTo(AntElems, 1, MaxAnts)}
    \cup {FuzzyRule(DefaultAnts, f, DefaultCons, <<"min", "min">>) : f \in ActFuncs}
    \cup {FuzzyRule(DefaultAnts, <<"min", "AND_min">>, c, i) :
            c \in SeqsUpTo(ConElems, 1, MaxCons), i \in ImplFuncs}

\* the crisp-input mappings: items with pairwise distinct keys
Keys == {"temperature", "power", "humidity"}
\* the crisp values: below, at and above the singleton's point, and the ends of
\* the other variables' domains
CrispValues == {0, 1, 2, 3}
CrispInputs ==
    {ci \in SeqsUpTo(Keys \X CrispValues, 0, MaxInputs) :
        \A i, j \in 1..Len(ci) : ci[i][1] = ci[j][1] => i = j}

\* the label arguments given to the builders: the defaults and a custom choice
Labels3 == {<<"low", "medium", "high">>, <<"cold", "cold", "hot">>}
Labels2 == {<<"low", "high">>, <<"cold", "hot">>}

NoRet == [err |-> "", val |-> <<>>]

Init ==
    /\ heap = Catalog
    /\ rule \in Rules
    /\ built = [heap |-> heap, rule |-> rule]
    /\ pc = "idle"
    /\ op = ""
    /\ args = <<>>
    /\ ret = NoRet

\* rule.fuzzify(crisp_inputs)
Fuzzify ==
    /\ pc = "idle"
    /\ \E crisp_inputs \in CrispInputs :
          /\ args' = crisp_inputs
          /\ ret' = [err |-> "", val |-> fuzzify(heap, rule, crisp_inputs)]
    /\ op' = "fuzzify"
    /\ pc' = "done"
    /\ UNCHANGED <<heap, rule, built>>

\* rule.activate(fuzzified_inputs)
Activate ==
    /\ pc = "idle"
    /\ \E fuzzified_inputs \in SeqsUpTo(Degrees, 0, MaxSeq) :
          /\ args' = fuzzified_inputs
          /\ LET res == activate(rule, fuzzified_inputs)
             IN  ret' = [err |-> res.err, val |-> res.ret]
    /\ op' = "activate"
    /\ pc' = "done"
    /\ UNCHANGED <<heap, rule, built>>

\* rule.implicate(antecedents_activation)
Implicate ==
    /\ pc = "idle"
    /\ \E antecedents_activation \in Degrees :
          /\ args' = antecedents_activation
          /\ LET res == implicate(heap, rule, antecedents_activation)
             IN  /\ heap' = res.heap
                 /\ ret' = [err |-> "", val |-> res.ret]
    /\ op' = "implicate"
    /\ pc' = "done"
    /\ UNCHANGED <<rule, built>>

\* ThreePointsLV("speed", p1, p2, p3, n1, n2, n3)
NewThreePointsLV ==
    /\ pc = "idle"
    /\ \E p1, p2, p3 \in 0..MaxX, n \in Labels3 :
          /\ args' = <<p1, p2, p3, n>>
          /\ LET res == ThreePointsLV(heap, "speed", p1, p2, p3, n[1], n[2], n[3])
             IN  /\ heap' = res.heap
                 /\ ret' = [err |-> res.err, val |-> res.ret]
    /\ op' = "ThreePointsLV"
    /\ pc' = "done"
    /\ UNCHANGED <<rule, built>>

\* TwoPointsPDLV("speed", p, d, n1, n2)
NewTwoPointsPDLV ==
    /\ pc = "idle"
    /\ \E p \in 0..MaxX, d \in (-MaxX)..MaxX, n \in Labels2 :
          /\ args' = <<p, d, n>>
          /\ LET res == TwoPointsPDLV(heap, "speed", p, d, n[1], n[2])
             IN  /\ heap' = res.heap
                 /\ ret' = [err |-> res.err, val |-> res.ret]
    /\ op' = "TwoPointsPDLV"
    /\ pc' = "done"
    /\ UNCHANGED <<rule, built>>

\* the caller is done with the returned value: the objects the call created
\* (those allocated after construction) are dropped
Return ==
    /\ pc = "done"
    /\ heap' = [mfs |-> SubSeq(heap.mfs, 1, Len(built.heap.mfs)),
                lvs |-> SubSeq(heap.lvs, 1, Len(built.heap.lvs))]
    /\ pc' = "idle"
    /\ op' = ""
    /\ args' = <<>>
    /\ ret' = NoRet
    /\ UNCHANGED <<rule, built>>

Next ==
    \/ Fuzzify
    \/ Activate
    \/ Implicate
    \/ NewThreePointsLV
    \/ NewTwoPointsPDLV
    \/ Return

Spec == Init /\ [][Next]_vars

(***************************************************************************)
(* Vocabulary of the properties, stated on the current state.              *)
(***************************************************************************)
FuzzifyDone == pc = "done" /\ op = "fuzzify"
ActivateDone == pc = "done" /\ op = "activate"
ImplicateDone == pc = "done" /\ op = "implicate"
ThreeDone == pc = "done" /\ op = "ThreePointsLV"
TwoDone == pc = "done" /\ op = "TwoPointsPDLV"

\* the name of the variable antecedent i refers to
AntName(i) == heap.lvs[rule.ants[i].lv_name].name
\* the antecedents whose variable is named k
AntsNamed(k) == {i \in 1..Len(rule.ants) : AntName(i) = k}
\* the first of them in declaration order
FirstAnt(k) == CHOOSE i \in AntsNamed(k) : \A j \in AntsNamed(k) : i <= j
\* the membership function antecedent i selects
AntMF(i) ==
    heap.mfs[heap.lvs[rule.ants[i].lv_name].ling_values[rule.ants[i].lv_value]]
\* the raw degree of x under antecedent i's membership function
RawDegree(i, x) == Interp(x, AntMF(i).in_values, AntMF(i).mf_values)
\* the degree antecedent i gives x, negation applied
AntDegree(i, x) ==
    IF rule.ants[i].is_not THEN RSub(One, RawDegree(i, x)) ELSE RawDegree(i, x)
\* the input entries (positions in args) whose key names some antecedent
Relevant == {k \in 1..Len(args) : AntsNamed(args[k][1]) # {}}
\* where in the output the degree of relevant entry k stands
Pos(k) == Cardinality({j \in Relevant : j <= k})

\* C1: fuzzify is first-match-wins: the degree appended for an input key k is the
\* one of the first antecedent in declaration order whose variable is named k
\* (its label's membership function, its negation flag), and the result is the
\* one the rule gives with every later antecedent on an already used name removed
C1_FirstMatchWins ==
    FuzzifyDone =>
        /\ \A k \in Relevant :
              ret.val[Pos(k)] = AntDegree(FirstAnt(args[k][1]), args[k][2])
        /\ LET firsts == {i \in 1..Len(rule.ants) : FirstAnt(AntName(i)) = i}
               kept == SelectSeq([i \in 1..Len(rule.ants) |-> i],
                                 LAMBDA i : i \in firsts)
               pruned == [rule EXCEPT
                             !.ants = [n \in 1..Len(kept) |-> rule.ants[kept[n]]]]
           IN  ret.val = fuzzify(heap, pruned, args)

\* C1 witness: a key matched by two antecedents, the later of which would have
\* given another degree than the one returned
C1_Witness ==
    /\ FuzzifyDone
    /\ \E k \in Relevant : \E j \in AntsNamed(args[k][1]) :
          /\ j # FirstAnt(args[k][1])
          /\ AntDegree(j, args[k][2]) # ret.val[Pos(k)]

\* C2: fuzzify returns, without error, exactly one degree per input entry whose
\* key names an antecedent's variable, in the order of the input mapping;
\* the other entries contribute nothing
C2_OneDegreePerRelevantInput ==
    FuzzifyDone =>
        LET rel == SelectSeq(args, LAMBDA e : AntsNamed(e[1]) # {})
        IN  /\ ret.err = ""
            /\ ret.val = [n \in 1..Len(rel) |->
                             AntDegree(FirstAnt(rel[n][1]), rel[n][2])]

\* C2 witness: two relevant entries given in the reverse of the declaration
\* order of their antecedents, with different degrees, and an irrelevant entry
C2_Witness ==
    /\ FuzzifyDone
    /\ Len(rule.ants) = 2
    /\ Len(args) = 2 /\ Len(ret.val) = 2
    /\ FirstAnt(args[1][1]) = 2 /\ FirstAnt(args[2][1]) = 1
    /\ ret.val[1] # ret.val[2]

\* the left fold of f over a non-empty sequence, seeded with its first element
RECURSIVE LeftFold(_, _)
LeftFold(f, s) ==
    IF Len(s) = 1 THEN s[1]
    ELSE Call(f, <<LeftFold(f, SubSeq(s, 1, Len(s) - 1)), s[Len(s)]>>)

Range(s) == {s[i] : i \in 1..Len(s)}
Minimum(S) == CHOOSE m \in S : \A x \in S : ~RLess(x, m)
Maximum(S) == CHOOSE m \in S : \A x \in S : ~RLess(m, x)

\* C3: for a non-empty sequence activate returns the left fold of the configured
\* aggregation function seeded with the first element: a one-element sequence is
\* returned unchanged, min gives the minimum and max the maximum
C3_ActivateIsLeftFold ==
    (ActivateDone /\ Len(args) >= 1) =>
        /\ ret.err = ""
        /\ ret.val = LeftFold(rule.ant_act_func[1], args)
        /\ Len(args) = 1 => ret.val = args[1]
        /\ rule.ant_act_func[1] = "min" => ret.val = Minimum(Range(args))
        /\ rule.ant_act_func[1] = "max" => ret.val = Maximum(Range(args))

\* C3 witness: a three-element sequence folded with a non-associative function,
\* where folding from the right would give another value
C3_Witness ==
    /\ ActivateDone
    /\ rule.ant_act_func[1] = "mean"
    /\ args = <<Zero, Zero, One>>
    /\ ret.val = Half

\* the name of the variable consequent i refers to
ConName(i) == heap.lvs[rule.cons[i].lv_name].name
\* the membership function consequent i selects
ConMF(i) ==
    heap.mfs[heap.lvs[rule.cons[i].lv_name].ling_values[rule.cons[i].lv_value]]
\* the consequents on the variable named v, in declaration order
ConsOn(v) ==
    SelectSeq([i \in 1..Len(rule.cons) |-> i], LAMBDA i : ConName(i) = v)

C5_SingletonThroughOwnFuzzify ==
    FuzzifyDone =>
        \A k \in Relevant :
            LET i == FirstAnt(args[k][1])
            IN  (AntMF(i).cls = "SingletonMF" /\ ~rule.ants[i].is_not) =>
                    ret.val[Pos(k)] = SingletonMF_fuzzify(AntMF(i), args[k][2])

\* C6: in fuzzify the degree appended for a matched antecedent is 1 - d when its
\* is_not is True and d when it is False, d the raw degree of the crisp value
\* under the antecedent's membership function
C6_Negation ==
    FuzzifyDone =>
        \A k \in Relevant :
            LET i == FirstAnt(args[k][1])
                d == RawDegree(i, args[k][2])
            IN  /\ rule.ants[i].is_not => RAdd(ret.val[Pos(k)], d) = One
                /\ ~rule.ants[i].is_not => ret.val[Pos(k)] = d

\* C6 witness: a negated antecedent whose raw degree is 1/3, contributing 2/3
C6_Witness ==
    /\ FuzzifyDone
    /\ \E k \in Relevant :
          LET i == FirstAnt(args[k][1])
          IN  /\ rule.ants[i].is_not
              /\ RawDegree(i, args[k][2]) = <<1, 3>>
              /\ ret.val[Pos(k)] = <<2, 3>>

\* C7: fuzzify returns a list of the same size as the number of antecedents
C7_SameSizeAsAntecedents ==
    FuzzifyDone => Len(ret.val) = Len(rule.ants)

\* C8: builder construction fails, and produces no linguistic variable, whenever
\* the defining points are not strictly increasing: ThreePointsLV unless
\* p1 < p2 < p3, TwoPointsPDLV unless d > 0
C8_BuildersRejectUnorderedPoints ==
    /\ (ThreeDone /\ ~(args[1] < args[2] /\ args[2] < args[3])) =>
          (ret.err # "" /\ heap = built.heap)
    /\ (TwoDone /\ ~(args[1] < args[1] + args[2])) =>
          (ret.err # "" /\ heap = built.heap)

\* the degree of x under the function labelled l of the variable just built
BuiltAt(l, x) ==
    LET mf == heap.mfs[heap.lvs[ret.val].ling_values[l]]
    IN  Interp(x, mf.in_values, mf.mf_values)

ConfigHeap ==
    [mfs |-> SubSeq(heap.mfs, 1, Len(built.heap.mfs)),
     lvs |-> SubSeq(heap.lvs, 1, Len(built.heap.lvs))]

\* the membership functions a returned mapping refers to, by value
ByValue(h, d) == [v \in DOMAIN d |-> [n \in 1..Len(d[v]) |-> h.mfs[d[v][n]]]]

\* C10: whatever calls were made, the rule's antecedents, consequents and
\* operator pairs and every membership function and linguistic variable that
\* existed at construction are unchanged, and a call returns what it returns on
\* the configuration as constructed, whichever calls preceded it
C10_EvaluationIsPure ==
    /\ rule = built.rule
    /\ ConfigHeap = built.heap
    /\ FuzzifyDone => ret.val = fuzzify(built.heap, built.rule, args)
    /\ ActivateDone => ret.val = activate(built.rule, args).ret
    /\ ImplicateDone =>
          LET fresh == implicate(built.heap, built.rule, args)
          IN  ByValue(heap, ret.val) = ByValue(fresh.heap, fresh.ret)

\* C10 witness: implicate has returned a function that differs from the
\* consequent's own, for a consequent whose function an antecedent uses too
C10_Witness ==
    /\ ImplicateDone
    /\ \E i \in 1..Len(rule.cons), j \in 1..Len(rule.ants) :
          /\ rule.cons[i].lv_name = rule.ants[j].lv_name
          /\ rule.cons[i].lv_value = rule.ants[j].lv_value
          /\ \E n \in 1..Len(ret.val[ConName(i)]) :
                heap.mfs[ret.val[ConName(i)][n]].mf_values # ConMF(i).mf_values

===========================================================================
